---- MODULE Spec2Model ----
(***************************************************************************)
(* Surface-Minder: snapshot ingestion and baseline-delta engine.           *)
(*                                                                         *)
(* The persisted store is one SQLite file with the tables scan_files,      *)
(* ports and baseline_ports.  Every command opens its own connection, so   *)
(* commands that run at the same time are separate writers: a connection   *)
(* sees the committed store, its first INSERT/DELETE opens a transaction   *)
(* and takes the write lock, and commit publishes the transaction's rows   *)
(* in one step.                                                            *)
(***************************************************************************)
EXTENDS Integers, Sequences, FiniteSets, TLC

VARIABLES
    scans,      \* the scans directory: the document of every file in it
    db,         \* the committed store
    lock,       \* the connection that holds the write lock, or NoProc
    wdb,        \* the store as the open write transaction sees it
    pc,         \* per process: position in its command
    loc,        \* per process: local variables of its command
    baseline,   \* delta engine input: baseline snapshot
    current,    \* delta engine input: current snapshot
    report      \* delta engine output

vars == <<scans, db, lock, wdb, pc, loc, baseline, current, report>>

(***************************************************************************)
(* Bounds                                                                  *)
(***************************************************************************)
MaxFiles == 2       \* at most this many files are put in the scans directory
MaxRows  == 2       \* the delta engine's input snapshots are built from at most this many rows

None   == "<None>"      \* Python None / SQL NULL
NoElem == "<no element>" \* a sub-element that the document does not have
NoProc == "<no process>"

\* The readings of utcnow(): the wall clock may step back between two calls.
Clock == {1, 2}

(***************************************************************************)
(* Generic sequence helpers                                                *)
(***************************************************************************)
Range(s) == {s[i] : i \in DOMAIN s}

\* All sequences over S of length at most n.
BoundedSeq(S, n) == UNION {[1..k -> S] : k \in 0..n}

\* All orderings of the finite set S.
Perms(S) == {q \in [1..Cardinality(S) -> S] : Range(q) = S}

(***************************************************************************)
(* Python dicts keep insertion order: a dict is a sequence of              *)
(* [k |-> key, v |-> value] with distinct keys.                            *)
(***************************************************************************)
DictKeys(d) == {d[i].k : i \in DOMAIN d}
DictHas(d, key) == \E i \in DOMAIN d : d[i].k = key
DictGet(d, key, default) ==
    IF DictHas(d, key) THEN d[CHOOSE i \in DOMAIN d : d[i].k = key].v ELSE default
\* d[key] = val: an existing key keeps its position, a new key is appended.
DictSet(d, key, val) ==
    IF DictHas(d, key)
    THEN [i \in DOMAIN d |-> IF d[i].k = key THEN [k |-> key, v |-> val] ELSE d[i]]
    ELSE Append(d, [k |-> key, v |-> val])

(***************************************************************************)
(* Scan file names.  The scanners write scan-<TS>-tcp-<ip>.xml and         *)
(* scan-<TS>-udp-<ip>.xml; any other *.xml in the directory is ingested    *)
(* too.  A name is modelled by its timestamp and its tag (the part between *)
(* the second and third dash).                                             *)
(***************************************************************************)
\* Names the scanners write.
ScannerNames == { [ts |-> 1, tag |-> "tcp"], [ts |-> 2, tag |-> "udp"],
                  [ts |-> 3, tag |-> "tcp"] }
\* ... and a file put there by hand, whose tag is in another case.
FileNames == ScannerNames \cup { [ts |-> 3, tag |-> "TCP"] }

\* ASCII order of the tags: "TCP" < "tcp" < "udp".
TagRank(g) == CASE g = "TCP" -> 0 [] g = "tcp" -> 1 [] g = "udp" -> 2

\* String order of two names (fixed-width timestamp first, then the tag).
NameLess(a, b) == a.ts < b.ts \/ (a.ts = b.ts /\ TagRank(a.tag) < TagRank(b.tag))

RECURSIVE sorted(_)
sorted(S) == IF S = {} THEN <<>>
             ELSE LET m == CHOOSE x \in S : \A y \in S \ {x} : NameLess(x, y)
                  IN <<m>> \o sorted(S \ {m})

\* '-tcp-' in fname / '-udp-' in fname, case-sensitive.
ScanTypeOf(fname) == IF fname.tag = "tcp" THEN "tcp"
                     ELSE IF fname.tag = "udp" THEN "udp"
                     ELSE "unknown"

(***************************************************************************)
(* Scan Result Parser.  A document is [ok, hosts]; ok = FALSE is a         *)
(* document ET.parse rejects.  A host entry is [addrs, ports]: the addr    *)
(* attribute of each address element (None when the attribute is missing)  *)
(* and its ports container [present, ports] (present = FALSE when the host  *)
(* has no container).  A port entry is [portid, protocol, state, service]: *)
(* portid is the attribute's characters (NoAttr when it is missing),       *)
(* protocol the attribute or None, state and service the sub-element's     *)
(* attribute, None when the element lacks the attribute and NoElem when    *)
(* the element is missing.                                                 *)
(***************************************************************************)
NoAttr == <<None>>
DigitChars == {"0", "1", "2", "3", "4", "5", "6", "7", "8", "9"}
DigitOf == ("0" :> 0) @@ ("1" :> 1) @@ ("2" :> 2) @@ ("3" :> 3) @@ ("4" :> 4) @@
           ("5" :> 5) @@ ("6" :> 6) @@ ("7" :> 7) @@ ("8" :> 8) @@ ("9" :> 9)

RECURSIVE StripLeft(_)
StripLeft(s) == IF s # <<>> /\ Head(s) = " " THEN StripLeft(Tail(s)) ELSE s
RECURSIVE StripRight(_)
StripRight(s) == IF s # <<>> /\ s[Len(s)] = " "
                 THEN StripRight(SubSeq(s, 1, Len(s) - 1)) ELSE s

\* The digits of a literal: "_" is allowed between two digits only.
LiteralOk(s) ==
    /\ s # <<>>
    /\ \A i \in DOMAIN s :
          \/ s[i] \in DigitChars
          \/ /\ s[i] = "_"
             /\ 1 < i /\ i < Len(s)
             /\ s[i-1] \in DigitChars /\ s[i+1] \in DigitChars

RECURSIVE LiteralVal(_, _)
LiteralVal(s, acc) ==
    IF s = <<>> THEN acc
    ELSE IF Head(s) = "_" THEN LiteralVal(Tail(s), acc)
    ELSE LiteralVal(Tail(s), acc * 10 + DigitOf[Head(s)])

\* int(x): [ok |-> TRUE, val |-> n], or [ok |-> FALSE] where int() raises
\* (None, or text that is no integer literal).
PyInt(x) ==
    IF x = NoAttr THEN [ok |-> FALSE, val |-> 0]
    ELSE LET t    == StripRight(StripLeft(x))
             neg  == t # <<>> /\ Head(t) = "-"
             body == IF t # <<>> /\ Head(t) \in {"-", "+"} THEN Tail(t) ELSE t
         IN IF LiteralOk(body)
            THEN [ok |-> TRUE,
                  val |-> IF neg THEN 0 - LiteralVal(body, 0) ELSE LiteralVal(body, 0)]
            ELSE [ok |-> FALSE, val |-> 0]

\* The first address element whose addr attribute is non-empty.
RECURSIVE FirstAddr(_)
FirstAddr(addrs) ==
    IF addrs = <<>> THEN None
    ELSE IF Head(addrs) # None /\ Head(addrs) # "" THEN Head(addrs)
    ELSE FirstAddr(Tail(addrs))

\* One port entry: the record appended to out, or nothing when int() raises.
ParsePort(addr, p) ==
    LET n == PyInt(p.portid)
    IN IF ~n.ok THEN <<>>
       ELSE << [ip      |-> addr,
                port    |-> n.val,
                proto   |-> p.protocol,
                state   |-> IF p.state # NoElem THEN p.state ELSE "",
                service |-> IF p.service # NoElem /\ p.service # None
                            THEN p.service ELSE ""] >>

\* Mutant: a port entry whose number does not parse ends the loop (break).
RECURSIVE ParsePorts_stopAtBad(_, _)
ParsePorts_stopAtBad(addr, ports) ==
    IF ports = <<>> THEN <<>>
    ELSE IF ParsePort(addr, Head(ports)) = <<>> THEN <<>>
    ELSE ParsePort(addr, Head(ports)) \o ParsePorts_stopAtBad(addr, Tail(ports))

RECURSIVE ParsePorts(_, _)
ParsePorts(addr, ports) ==
    IF ports = <<>> THEN <<>>
    ELSE ParsePort(addr, Head(ports)) \o ParsePorts(addr, Tail(ports))

ParseHost(host) ==
    LET addr == FirstAddr(host.addrs)
    IN IF addr = None THEN <<>>
       ELSE IF ~host.ports.present THEN <<>>
       ELSE ParsePorts(addr, host.ports.ports)

RECURSIVE ParseHosts(_)
ParseHosts(hosts) ==
    IF hosts = <<>> THEN <<>>
    ELSE ParseHost(Head(hosts)) \o ParseHosts(Tail(hosts))

\* The list of records {ip, port, proto, state, service} of one document.
parse_nmap_xml_path(doc) == IF ~doc.ok THEN <<>> ELSE ParseHosts(doc.hosts)

(***************************************************************************)
(* The documents the scan collaborator may leave in the directory.         *)
(***************************************************************************)
PortEl(portid, protocol, state, service) ==
    [portid |-> portid, protocol |-> protocol, state |-> state, service |-> service]
HostEl(addrs, ports) == [addrs |-> addrs, ports |-> [present |-> TRUE, ports |-> ports]]
HostNoPorts(addrs) == [addrs |-> addrs, ports |-> [present |-> FALSE, ports |-> <<>>]]

\* Not well-formed XML.
DocCorrupt == [ok |-> FALSE, hosts |-> <<>>]
\* One host, one open port.
DocWeb == [ok |-> TRUE, hosts |->
    << HostEl(<<"h1">>, << PortEl(<<"8", "0">>, "tcp", "open", "http") >>) >>]
\* The same (host, port, protocol) twice, with different state and service.
DocDup == [ok |-> TRUE, hosts |->
    << HostEl(<<"h1">>, << PortEl(<<"8", "0">>, "tcp", "open", "http"),
                           PortEl(<<"8", "0">>, "tcp", "closed", NoElem) >>) >>]
\* Same key as DocWeb with the state in another case; a second host with a
\* udp port on the same port number; entries the parser skips.
DocMixed == [ok |-> TRUE, hosts |->
    << HostEl(<<None, "h1">>, << PortEl(<<"8", "0">>, "tcp", "Open", "http"),
                                 PortEl(<<"x">>, "tcp", "open", "http"),
                                 PortEl(<<"8", "0">>, "udp", "open", None) >>),
       HostEl(<<>>, << PortEl(<<"2", "2">>, "tcp", "open", "ssh") >>),
       HostNoPorts(<<"h2">>) >>]

Docs == {DocCorrupt, DocWeb, DocDup, DocMixed}

\* The documents a file of a given name may hold.
DocsFor(f) == IF f.tag = "udp" THEN {DocMixed}
              ELSE IF f.tag = "tcp" /\ f.ts = 1 THEN {DocCorrupt}
              ELSE IF f.tag = "tcp" THEN {DocWeb, DocDup}
              ELSE {DocDup}

(***************************************************************************)
(* The persisted store.  scan_files rows are [id, scan_file, scan_type,    *)
(* created_at]; seq is the AUTOINCREMENT counter of scan_files; ports rows *)
(* are [scan_file, ip, port, proto, state, service]; baseline_ports rows   *)
(* are [tenant, ip, port, proto, state, service, set_at].  The rows of a   *)
(* table are kept in rowid order, the order a SELECT returns them in.      *)
(***************************************************************************)
NoName == [ts |-> 0, tag |-> ""]     \* no scan file (None)

EmptyDb == [scan_files |-> <<>>, seq |-> 0, ports |-> <<>>, baseline_ports |-> <<>>]

\* CREATE TABLE IF NOT EXISTS ...: the tables exist from the first
\* connection on, and creating them again changes nothing.
init_db(d) == d

\* scan_file TEXT UNIQUE: an INSERT of a name the table holds fails.
UniqueViolation(d, fname) == \E i \in DOMAIN d.scan_files : d.scan_files[i].scan_file = fname

\* Mutant: the lookup that decides the skip never finds the name.
SelectScanFile_never(d, fname) == FALSE

\* SELECT 1 FROM scan_files WHERE scan_file=?
SelectScanFile(d, fname) == \E i \in DOMAIN d.scan_files : d.scan_files[i].scan_file = fname

\* INSERT INTO scan_files (scan_file, scan_type, created_at) VALUES (?,?,?)
InsertScanFile(d, fname, typ, created_at) ==
    [d EXCEPT !.seq = d.seq + 1,
              !.scan_files = Append(d.scan_files,
                  [id |-> d.seq + 1, scan_file |-> fname, scan_type |-> typ,
                   created_at |-> created_at])]

\* Mutant: the service column is not written.
InsertPort_noService(d, fname, r) ==
    [d EXCEPT !.ports = Append(d.ports,
        [scan_file |-> fname, ip |-> r.ip, port |-> r.port, proto |-> r.proto,
         state |-> r.state, service |-> ""])]

\* Mutant: the row names the file by its path, a name scan_files never holds.
InsertPort_fullPath(d, fname, r) ==
    [d EXCEPT !.ports = Append(d.ports,
        [scan_file |-> [ts |-> fname.ts, tag |-> "path"], ip |-> r.ip, port |-> r.port,
         proto |-> r.proto, state |-> r.state, service |-> r.service])]

\* INSERT INTO ports (scan_file, ip, port, proto, state, service) VALUES (...)
InsertPort(d, fname, r) ==
    [d EXCEPT !.ports = Append(d.ports,
        [scan_file |-> fname, ip |-> r.ip, port |-> r.port, proto |-> r.proto,
         state |-> r.state, service |-> r.service])]

\* SELECT ip, port, proto, state, service FROM ports WHERE scan_file=?
PortRow(row) == [ip |-> row.ip, port |-> row.port, proto |-> row.proto,
                 state |-> row.state, service |-> row.service]
SelectPorts(d, fname) ==
    LET hit == SelectSeq(d.ports, LAMBDA row : row.scan_file = fname)
    IN [i \in DOMAIN hit |-> PortRow(hit[i])]

\* SELECT scan_file FROM scan_files ORDER BY id DESC LIMIT 1
LatestAny(d) ==
    IF d.scan_files = <<>> THEN NoName
    ELSE LET i == CHOOSE j \in DOMAIN d.scan_files :
                      \A k \in DOMAIN d.scan_files : d.scan_files[k].id <= d.scan_files[j].id
         IN d.scan_files[i].scan_file

\* Mutant: ORDER BY created_at DESC instead of ORDER BY id DESC.
LatestOfType_byCreatedAt(d, typ) ==
    LET hit == SelectSeq(d.scan_files, LAMBDA row : row.scan_type = typ)
    IN IF hit = <<>> THEN NoName
       ELSE LET i == CHOOSE j \in DOMAIN hit :
                         \A k \in DOMAIN hit : hit[k].created_at <= hit[j].created_at
            IN hit[i].scan_file

\* SELECT scan_file FROM scan_files WHERE scan_type=? ORDER BY id DESC LIMIT 1
LatestOfType(d, typ) ==
    LET hit == SelectSeq(d.scan_files, LAMBDA row : row.scan_type = typ)
    IN IF hit = <<>> THEN NoName
       ELSE LET i == CHOOSE j \in DOMAIN hit : \A k \in DOMAIN hit : hit[k].id <= hit[j].id
            IN hit[i].scan_file

\* SELECT ip, port, proto, state, service FROM ports WHERE scan_file IN (?, ...)
SelectPortsIn(d, fnames) ==
    LET hit == SelectSeq(d.ports, LAMBDA row : row.scan_file \in fnames)
    IN [i \in DOMAIN hit |-> PortRow(hit[i])]

\* Mutant: the old entries are kept (a merge).
DeleteBaseline_keep(d, tenant) == d

\* Mutant: the DELETE also clears the observations table.
DeleteBaseline_withPorts(d, tenant) ==
    [d EXCEPT !.baseline_ports = SelectSeq(@, LAMBDA row : row.tenant # tenant),
              !.ports = <<>>]

\* Mutant: the WHERE clause of the DELETE is missing.
DeleteBaseline_everyTenant(d, tenant) == [d EXCEPT !.baseline_ports = <<>>]

\* DELETE FROM baseline_ports WHERE tenant=?
DeleteBaseline(d, tenant) ==
    [d EXCEPT !.baseline_ports = SelectSeq(@, LAMBDA row : row.tenant # tenant)]

\* Mutant: the service column is not copied.
InsertBaseline_noService(d, tenant, r, set_at) ==
    [d EXCEPT !.baseline_ports = Append(@,
        [tenant |-> tenant, ip |-> r.ip, port |-> r.port, proto |-> r.proto,
         state |-> r.state, service |-> "", set_at |-> set_at])]

\* INSERT INTO baseline_ports (tenant, ip, port, proto, state, service, set_at) ...
InsertBaseline(d, tenant, r, set_at) ==
    [d EXCEPT !.baseline_ports = Append(@,
        [tenant |-> tenant, ip |-> r.ip, port |-> r.port, proto |-> r.proto,
         state |-> r.state, service |-> r.service, set_at |-> set_at])]

\* Mutant: the WHERE clause is missing.
SelectBaseline_anyTenant(d, tenant) ==
    [i \in DOMAIN d.baseline_ports |-> PortRow(d.baseline_ports[i])]

\* SELECT ip, port, proto, state, service FROM baseline_ports WHERE tenant=?
SelectBaseline(d, tenant) ==
    LET hit == SelectSeq(d.baseline_ports, LAMBDA row : row.tenant = tenant)
    IN [i \in DOMAIN hit |-> PortRow(hit[i])]

\* Mutant: the inner dict is keyed by the port number alone.
SnapshotKey_portOnly(r) == <<r.port, "">>

\* The key of an observation in its host's dict: (port, proto).
SnapshotKey(r) == <<r.port, r.proto>>

\* for ip, port, proto, state, service in rows:
\*     snap.setdefault(ip, {})[(port, proto)] = {'state': state, 'service': service}
RECURSIVE BuildSnapshotFrom(_, _)
BuildSnapshotFrom(snap, rows) ==
    IF rows = <<>> THEN snap
    ELSE LET r == Head(rows)
             inner == DictSet(DictGet(snap, r.ip, <<>>), SnapshotKey(r),
                              [state |-> r.state, service |-> r.service])
         IN BuildSnapshotFrom(DictSet(snap, r.ip, inner), Tail(rows))

BuildSnapshot(rows) == BuildSnapshotFrom(<<>>, rows)

(***************************************************************************)
(* Delta Engine: _compute_delta(baseline, current).  A snapshot is a dict   *)
(* ip -> dict (port, proto) -> [state, service]; the report is a dict       *)
(* ip -> [added, removed, changed].  `order` is the order in which the loop *)
(* meets the hosts: the iteration order of a set of strings.                *)
(***************************************************************************)
\* Mutant: the second loop tests membership in the wrong map.
DeltaRemoved_wrongMap(b_map, c_map) ==
    LET gone == SelectSeq(b_map, LAMBDA e : ~DictHas(b_map, e.k))
    IN [i \in DOMAIN gone |-> <<gone[i].k, gone[i].v>>]

\* for k, v in b_map.items(): if k not in c_map: removed.append((k, v))
DeltaRemoved(b_map, c_map) ==
    LET gone == SelectSeq(b_map, LAMBDA e : ~DictHas(c_map, e.k))
    IN [i \in DOMAIN gone |-> <<gone[i].k, gone[i].v>>]

\* for k, v in c_map.items(): if k not in b_map: added.append((k, v))
DeltaAdded(b_map, c_map) ==
    LET new == SelectSeq(c_map, LAMBDA e : ~DictHas(b_map, e.k))
    IN [i \in DOMAIN new |-> <<new[i].k, new[i].v>>]

\* Mutant: only the state is compared.
DeltaChanged_stateOnly(b_map, c_map) ==
    LET diff == SelectSeq(c_map, LAMBDA e :
                    DictHas(b_map, e.k) /\ e.v.state # DictGet(b_map, e.k, e.v).state)
    IN [i \in DOMAIN diff |-> <<diff[i].k, DictGet(b_map, diff[i].k, diff[i].v), diff[i].v>>]

\* Mutant: the values are compared by identity (`is not`): two dicts built
\* from two result sets are never the same object.
DeltaChanged_identity(b_map, c_map) ==
    LET diff == SelectSeq(c_map, LAMBDA e : DictHas(b_map, e.k))
    IN [i \in DOMAIN diff |-> <<diff[i].k, DictGet(b_map, diff[i].k, diff[i].v), diff[i].v>>]

\* for k, v in c_map.items(): if k in b_map and v != b_map[k]:
\*     changed.append((k, b_map[k], v))
DeltaChanged(b_map, c_map) ==
    LET diff == SelectSeq(c_map, LAMBDA e :
                    DictHas(b_map, e.k) /\ e.v # DictGet(b_map, e.k, e.v))
    IN [i \in DOMAIN diff |-> <<diff[i].k, DictGet(b_map, diff[i].k, diff[i].v), diff[i].v>>]

\* Mutant: every host the loop meets gets an entry.
ReportsHost_always(added, removed, changed) == TRUE

\* if added or removed or changed: report[ip] = {...}
ReportsHost(added, removed, changed) ==
    added # <<>> \/ removed # <<>> \/ changed # <<>>

RECURSIVE DeltaLoop(_, _, _, _)
DeltaLoop(rep, base, cur, order) ==
    IF order = <<>> THEN rep
    ELSE LET ip      == Head(order)
             b_map   == DictGet(base, ip, <<>>)
             c_map   == DictGet(cur, ip, <<>>)
             added   == DeltaAdded(b_map, c_map)
             removed == DeltaRemoved(b_map, c_map)
             changed == DeltaChanged(b_map, c_map)
         IN DeltaLoop(IF ReportsHost(added, removed, changed)
                      THEN DictSet(rep, ip, [added |-> added, removed |-> removed,
                                             changed |-> changed])
                      ELSE rep,
                      base, cur, Tail(order))

\* ips = set(list(baseline.keys()) + list(current.keys()))
DeltaIps(base, cur) == DictKeys(base) \cup DictKeys(cur)

compute_delta(base, cur, order) == DeltaLoop(<<>>, base, cur, order)

(***************************************************************************)
(* Processes: one per command invocation, each with its own connection.    *)
(***************************************************************************)
IngestProcs   == {"i1", "i2"}       \* tenant_parser.py --ingest
BaselineProcs == {"b1"}             \* tenant_parser.py --set-baseline / create_baseline.py
DeltaProcs    == {"d1"}             \* one call of _compute_delta
Procs == IngestProcs \cup BaselineProcs \cup DeltaProcs

Tenants == {"t1", "t2"}

\* files, fname, records: ingest_all_scans.  tenant, scan_file, rows, n,
\* set_at: the baseline commands (n rows of `rows` are inserted so far).
\* latest_tcp, latest_udp: create_baseline.  err: the exception that ended
\* the process; rc: the exit code of create_baseline's main.  ret: the shape
\* of the dict a comparison returned: "empty" for {}, "latest" for
\* {latest_scan_file, report}, "combined" for {latest_tcp, latest_udp, report}.
\* mail: what became of the notification ("" while none was attempted);
\* out: the last line main.py's check command printed.
InitLoc == [files |-> <<>>, fname |-> NoName, records |-> <<>>, err |-> "none",
            tenant |-> "", scan_file |-> NoName, rows |-> <<>>, n |-> 0, set_at |-> 0,
            latest_tcp |-> NoName, latest_udp |-> NoName, rc |-> 0, ret |-> "",
            mail |-> "", out |-> ""]

Init ==
    /\ scans = <<>>
    /\ db = EmptyDb
    /\ lock = NoProc
    /\ wdb = EmptyDb
    /\ pc = [p \in Procs |-> "idle"]
    /\ loc = [p \in Procs |-> InitLoc]
    /\ baseline = <<>>
    /\ current = <<>>
    /\ report = <<>>

diffVars == <<baseline, current, report>>

(***************************************************************************)
(* Scan execution collaborator: one more document in the scans directory.  *)
(***************************************************************************)
ScanArrives(f, doc) ==
    /\ f \notin DOMAIN scans
    /\ Cardinality(DOMAIN scans) < MaxFiles
    /\ scans' = [g \in DOMAIN scans \cup {f} |-> IF g = f THEN doc ELSE scans[g]]
    /\ UNCHANGED <<db, lock, wdb, pc, loc, diffVars>>

(***************************************************************************)
(* ingest_all_scans, statement by statement.                               *)
(***************************************************************************)
\* An uncaught exception ends the process: its open transaction is rolled
\* back and its lock released.
Raise(p, exc) ==
    /\ pc' = [pc EXCEPT ![p] = "raised"]
    /\ loc' = [loc EXCEPT ![p].err = exc]
    /\ lock' = IF lock = p THEN NoProc ELSE lock
    /\ wdb' = IF lock = p THEN db ELSE wdb
    /\ UNCHANGED db

\* connect, init_db, files = sorted(listdir)
IngestStart(p) ==
    /\ pc[p] \in {"idle", "raised"}
    /\ pc' = [pc EXCEPT ![p] = "loop"]
    /\ loc' = [loc EXCEPT ![p] = [InitLoc EXCEPT !.files = sorted(DOMAIN scans)]]
    /\ UNCHANGED <<scans, db, lock, wdb, diffVars>>

\* for fpath in files: the loop is over, conn.close()
IngestEnd(p) ==
    /\ pc[p] = "loop"
    /\ loc[p].files = <<>>
    /\ pc' = [pc EXCEPT ![p] = "idle"]
    /\ UNCHANGED <<scans, db, lock, wdb, loc, diffVars>>

\* SELECT 1 ... ; if c.fetchone(): continue
IngestSelect(p) ==
    /\ pc[p] = "loop"
    /\ loc[p].files # <<>>
    /\ LET fname == Head(loc[p].files)
       IN IF SelectScanFile(db, fname)
          THEN /\ loc' = [loc EXCEPT ![p].files = Tail(@)]
               /\ pc' = pc
          ELSE /\ loc' = [loc EXCEPT ![p].fname = fname]
               /\ pc' = [pc EXCEPT ![p] = "insert_file"]
    /\ UNCHANGED <<scans, db, lock, wdb, diffVars>>

\* Mutant: a document that does not parse raises out of the loop.
IngestInsertFile_parseRaises(p) ==
    /\ pc[p] = "insert_file"
    /\ lock = NoProc
    /\ LET fname == loc[p].fname
       IN IF UniqueViolation(db, fname)
          THEN Raise(p, "IntegrityError")
          ELSE IF ~scans[fname].ok
          THEN Raise(p, "ParseError")
          ELSE \E created_at \in Clock :
                 /\ wdb' = InsertScanFile(db, fname, ScanTypeOf(fname), created_at)
                 /\ lock' = p
                 /\ loc' = [loc EXCEPT ![p].records = parse_nmap_xml_path(scans[fname])]
                 /\ pc' = [pc EXCEPT ![p] = "insert_ports"]
                 /\ UNCHANGED db
    /\ UNCHANGED <<scans, diffVars>>

\* created_at = utcnow(); INSERT INTO scan_files ...; records = parse(fpath)
\* The INSERT opens the transaction and takes the write lock.
IngestInsertFile(p) ==
    /\ pc[p] = "insert_file"
    /\ lock = NoProc
    /\ LET fname == loc[p].fname
       IN IF UniqueViolation(db, fname)
          THEN Raise(p, "IntegrityError")
          ELSE \E created_at \in Clock :
                 /\ wdb' = InsertScanFile(db, fname, ScanTypeOf(fname), created_at)
                 /\ lock' = p
                 /\ loc' = [loc EXCEPT ![p].records = parse_nmap_xml_path(scans[fname])]
                 /\ pc' = [pc EXCEPT ![p] = "insert_ports"]
                 /\ UNCHANGED db
    /\ UNCHANGED <<scans, diffVars>>

\* The write lock is held by another connection for longer than the
\* connection's busy timeout: sqlite3.OperationalError (database is locked).
IngestBusy(p) ==
    /\ pc[p] = "insert_file"
    /\ lock \notin {NoProc, p}
    /\ Raise(p, "OperationalError")
    /\ UNCHANGED <<scans, diffVars>>

\* for r in records: INSERT INTO ports ...
IngestInsertPort(p) ==
    /\ pc[p] = "insert_ports"
    /\ loc[p].records # <<>>
    /\ wdb' = InsertPort(wdb, loc[p].fname, Head(loc[p].records))
    /\ loc' = [loc EXCEPT ![p].records = Tail(@)]
    /\ UNCHANGED <<scans, db, lock, pc, diffVars>>

\* conn.commit()
IngestCommit(p) ==
    /\ pc[p] = "insert_ports"
    /\ loc[p].records = <<>>
    /\ db' = wdb
    /\ wdb' = wdb
    /\ lock' = NoProc
    /\ loc' = [loc EXCEPT ![p].files = Tail(@), ![p].fname = NoName]
    /\ pc' = [pc EXCEPT ![p] = "loop"]
    /\ UNCHANGED <<scans, diffVars>>

Ingest(p) ==
    \/ IngestStart(p)
    \/ IngestEnd(p)
    \/ IngestSelect(p)
    \/ IngestInsertFile(p)
    \/ IngestBusy(p)
    \/ IngestInsertPort(p)
    \/ IngestCommit(p)

(***************************************************************************)
(* set_baseline(tenant, scan_file=None), statement by statement.           *)
(***************************************************************************)
\* connect, init_db
SetBaselineStart(p, tenant, scan_file) ==
    /\ pc[p] \in {"idle", "raised"}
    /\ pc' = [pc EXCEPT ![p] = "bl_latest"]
    /\ loc' = [loc EXCEPT ![p] = [InitLoc EXCEPT !.tenant = tenant, !.scan_file = scan_file]]
    /\ UNCHANGED <<scans, db, lock, wdb, diffVars>>

\* Mutant: no "if not r: return"; the command goes on to the DELETE.
SetBaselineLatest_noReturn(p) ==
    /\ pc[p] = "bl_latest"
    /\ pc' = [pc EXCEPT ![p] = "bl_delete"]
    /\ loc' = [loc EXCEPT ![p].scan_file =
                  IF loc[p].scan_file # NoName THEN loc[p].scan_file ELSE LatestAny(db)]
    /\ UNCHANGED <<scans, db, lock, wdb, diffVars>>

\* if not scan_file: SELECT ... ORDER BY id DESC LIMIT 1; if not r: return
SetBaselineLatest(p) ==
    /\ pc[p] = "bl_latest"
    /\ IF loc[p].scan_file # NoName
       THEN /\ pc' = [pc EXCEPT ![p] = "bl_delete"]
            /\ loc' = loc
       ELSE IF LatestAny(db) = NoName
       THEN /\ pc' = [pc EXCEPT ![p] = "idle"]
            /\ loc' = [loc EXCEPT ![p] = InitLoc]
       ELSE /\ pc' = [pc EXCEPT ![p] = "bl_delete"]
            /\ loc' = [loc EXCEPT ![p].scan_file = LatestAny(db)]
    /\ UNCHANGED <<scans, db, lock, wdb, diffVars>>

\* Mutant: the connection is in autocommit mode, the DELETE is published at once.
SetBaselineDelete_autocommit(p) ==
    /\ pc[p] = "bl_delete"
    /\ lock = NoProc
    /\ lock' = p
    /\ wdb' = DeleteBaseline(db, loc[p].tenant)
    /\ db' = DeleteBaseline(db, loc[p].tenant)
    /\ pc' = [pc EXCEPT ![p] = "bl_select"]
    /\ UNCHANGED <<scans, loc, diffVars>>

\* DELETE FROM baseline_ports WHERE tenant=?  (opens the transaction)
SetBaselineDelete(p) ==
    /\ pc[p] = "bl_delete"
    /\ lock = NoProc
    /\ lock' = p
    /\ wdb' = DeleteBaseline(db, loc[p].tenant)
    /\ pc' = [pc EXCEPT ![p] = "bl_select"]
    /\ UNCHANGED <<scans, db, loc, diffVars>>

\* The DELETE finds the store locked until the busy timeout.
SetBaselineBusy(p) ==
    /\ pc[p] = "bl_delete"
    /\ lock \notin {NoProc, p}
    /\ Raise(p, "OperationalError")
    /\ UNCHANGED <<scans, diffVars>>

\* SELECT ... FROM ports WHERE scan_file=?; rows = fetchall(); set_at = utcnow()
SetBaselineSelect(p) ==
    /\ pc[p] = "bl_select"
    /\ \E set_at \in Clock :
         loc' = [loc EXCEPT ![p].rows = SelectPorts(wdb, loc[p].scan_file),
                            ![p].n = 0, ![p].set_at = set_at]
    /\ pc' = [pc EXCEPT ![p] = "bl_insert"]
    /\ UNCHANGED <<scans, db, lock, wdb, diffVars>>

\* for ... in rows: INSERT INTO baseline_ports ...
SetBaselineInsert(p) ==
    /\ pc[p] = "bl_insert"
    /\ loc[p].n < Len(loc[p].rows)
    /\ wdb' = InsertBaseline(wdb, loc[p].tenant, loc[p].rows[loc[p].n + 1], loc[p].set_at)
    /\ loc' = [loc EXCEPT ![p].n = @ + 1]
    /\ UNCHANGED <<scans, db, lock, pc, diffVars>>

\* conn.commit(); conn.close()
SetBaselineCommit(p) ==
    /\ pc[p] = "bl_insert"
    /\ loc[p].n = Len(loc[p].rows)
    /\ db' = wdb
    /\ wdb' = wdb
    /\ lock' = NoProc
    /\ pc' = [pc EXCEPT ![p] = "idle"]
    /\ loc' = [loc EXCEPT ![p] = InitLoc]
    /\ UNCHANGED <<scans, diffVars>>

\* The scan_file arguments set_baseline is called with, besides None.
ExplicitScanFiles == {[ts |-> 3, tag |-> "tcp"]}

SetBaseline(p, Ts) ==
    \/ \E t \in Ts, f \in ExplicitScanFiles \cup {NoName} : SetBaselineStart(p, t, f)
    \/ SetBaselineLatest(p)
    \/ SetBaselineDelete(p)
    \/ SetBaselineBusy(p)
    \/ SetBaselineSelect(p)
    \/ SetBaselineInsert(p)
    \/ SetBaselineCommit(p)

(***************************************************************************)
(* create_baseline.py, step 4 of main: the combined baseline from the      *)
(* latest tcp and the latest udp artifact.  (Steps 1-3 run the scanners    *)
(* and the ingestion as child processes: ScanArrives and Ingest.)          *)
(***************************************************************************)
CreateBaselineStart(p, tenant) ==
    /\ pc[p] \in {"idle", "raised"}
    /\ pc' = [pc EXCEPT ![p] = "cb_tcp"]
    /\ loc' = [loc EXCEPT ![p] = [InitLoc EXCEPT !.tenant = tenant]]
    /\ UNCHANGED <<scans, db, lock, wdb, diffVars>>

\* get_latest_scan_files: the tcp query
CreateBaselineLatestTcp(p) ==
    /\ pc[p] = "cb_tcp"
    /\ loc' = [loc EXCEPT ![p].latest_tcp = LatestOfType(db, "tcp")]
    /\ pc' = [pc EXCEPT ![p] = "cb_udp"]
    /\ UNCHANGED <<scans, db, lock, wdb, diffVars>>

\* get_latest_scan_files: the udp query; main: if not scan_files: return 21
CreateBaselineLatestUdp(p) ==
    /\ pc[p] = "cb_udp"
    /\ LET latest_udp == LatestOfType(db, "udp")
       IN IF loc[p].latest_tcp = NoName /\ latest_udp = NoName
          THEN /\ pc' = [pc EXCEPT ![p] = "idle"]
               /\ loc' = [loc EXCEPT ![p] = [InitLoc EXCEPT !.rc = 21]]
          ELSE /\ pc' = [pc EXCEPT ![p] = "cb_collect"]
               /\ loc' = [loc EXCEPT ![p].latest_udp = latest_udp]
    /\ UNCHANGED <<scans, db, lock, wdb, diffVars>>

\* scan_files = [latest_tcp] + [latest_udp]; collect_ports_for_scans
collect_ports_for_scans(d, scan_files) ==
    IF scan_files = {} THEN <<>> ELSE SelectPortsIn(d, scan_files)

CreateBaselineCollect(p) ==
    /\ pc[p] = "cb_collect"
    /\ loc' = [loc EXCEPT ![p].rows =
           collect_ports_for_scans(db, {loc[p].latest_tcp, loc[p].latest_udp} \ {NoName}),
                          ![p].n = 0]
    /\ pc' = [pc EXCEPT ![p] = "cb_delete"]
    /\ UNCHANGED <<scans, db, lock, wdb, diffVars>>

\* set_baseline_combined: DELETE FROM baseline_ports WHERE tenant = ?; set_at
CombinedDelete(p) ==
    /\ pc[p] = "cb_delete"
    /\ lock = NoProc
    /\ lock' = p
    /\ wdb' = DeleteBaseline(db, loc[p].tenant)
    /\ \E set_at \in Clock : loc' = [loc EXCEPT ![p].set_at = set_at]
    /\ pc' = [pc EXCEPT ![p] = "cb_insert"]
    /\ UNCHANGED <<scans, db, diffVars>>

\* The DELETE finds the store locked: except Exception: rollback, return -1;
\* main returns 30.
CombinedBusy(p) ==
    /\ pc[p] = "cb_delete"
    /\ lock \notin {NoProc, p}
    /\ pc' = [pc EXCEPT ![p] = "idle"]
    /\ loc' = [loc EXCEPT ![p] = [InitLoc EXCEPT !.rc = 30]]
    /\ UNCHANGED <<scans, db, lock, wdb, diffVars>>

\* for (ip, port, proto, state, service) in port_rows: INSERT ...
CombinedInsert(p) ==
    /\ pc[p] = "cb_insert"
    /\ loc[p].n < Len(loc[p].rows)
    /\ wdb' = InsertBaseline(wdb, loc[p].tenant, loc[p].rows[loc[p].n + 1], loc[p].set_at)
    /\ loc' = [loc EXCEPT ![p].n = @ + 1]
    /\ UNCHANGED <<scans, db, lock, pc, diffVars>>

\* conn.commit(); return inserted; main returns 0
CombinedCommit(p) ==
    /\ pc[p] = "cb_insert"
    /\ loc[p].n = Len(loc[p].rows)
    /\ db' = wdb
    /\ wdb' = wdb
    /\ lock' = NoProc
    /\ pc' = [pc EXCEPT ![p] = "idle"]
    /\ loc' = [loc EXCEPT ![p] = InitLoc]
    /\ UNCHANGED <<scans, diffVars>>

CreateBaseline(p, Ts) ==
    \/ \E t \in Ts : CreateBaselineStart(p, t)
    \/ CreateBaselineLatestTcp(p)
    \/ CreateBaselineLatestUdp(p)
    \/ CreateBaselineCollect(p)
    \/ CombinedDelete(p)
    \/ CombinedBusy(p)
    \/ CombinedInsert(p)
    \/ CombinedCommit(p)

Next ==
    \/ \E f \in ScannerNames : \E doc \in DocsFor(f) : ScanArrives(f, doc)
    \/ Ingest("i1")
    \/ \E p \in BaselineProcs : SetBaseline(p, {"t1"}) \/ CreateBaseline(p, {"t1"})

Spec == Init /\ [][Next]_vars

(***************************************************************************)
(* Storage failures during a baseline replace: a statement after the       *)
(* DELETE (the SELECT, an INSERT or the commit) raises sqlite3.Error, for   *)
(* instance on a full disk or an I/O error.                                 *)
(***************************************************************************)
\* set_baseline has no handler: the exception leaves the function, and the
\* open transaction is rolled back when the connection is closed.
SetBaselineFail(p) ==
    /\ pc[p] \in {"bl_select", "bl_insert"}
    /\ lock = p
    /\ Raise(p, "OperationalError")
    /\ UNCHANGED <<scans, diffVars>>

\* Mutant: the handler commits what was written so far.
CombinedFail_commits(p) ==
    /\ pc[p] = "cb_insert"
    /\ lock = p
    /\ db' = wdb
    /\ wdb' = wdb
    /\ lock' = NoProc
    /\ pc' = [pc EXCEPT ![p] = "idle"]
    /\ loc' = [loc EXCEPT ![p] = [InitLoc EXCEPT !.rc = 30]]
    /\ UNCHANGED <<scans, diffVars>>

\* set_baseline_combined: except Exception: conn.rollback(); return -1;
\* main returns 30.
CombinedFail(p) ==
    /\ pc[p] = "cb_insert"
    /\ lock = p
    /\ wdb' = db
    /\ lock' = NoProc
    /\ pc' = [pc EXCEPT ![p] = "idle"]
    /\ loc' = [loc EXCEPT ![p] = [InitLoc EXCEPT !.rc = 30]]
    /\ UNCHANGED <<scans, db, diffVars>>

NextFail ==
    \/ Next
    \/ \E p \in BaselineProcs : SetBaselineFail(p) \/ CombinedFail(p)

SpecFail == Init /\ [][NextFail]_vars

(***************************************************************************)
(* Ingestion runs with no other command at the store.                      *)
(***************************************************************************)
NextIngest ==
    \/ \E f \in ScannerNames : \E doc \in DocsFor(f) : ScanArrives(f, doc)
    \/ IngestStart("i1")
    \/ IngestEnd("i1")
    \/ IngestSelect("i1")
    \/ IngestInsertFile("i1")
    \/ IngestInsertPort("i1")
    \/ IngestCommit("i1")

SpecIngest == Init /\ [][NextIngest]_vars

(***************************************************************************)
(* Two ingestion runs at the same time, each with its own connection.      *)
(***************************************************************************)
NextRace ==
    \/ \E f \in FileNames : \E doc \in DocsFor(f) : ScanArrives(f, doc)
    \/ \E p \in IngestProcs : Ingest(p)

SpecRace == Init /\ [][NextRace]_vars

(***************************************************************************)
(* The delta engine on its own: every pair of snapshots that can be built  *)
(* from at most MaxRows rows each, in every order of the hosts.            *)
(***************************************************************************)
DeltaRow(ip, port, proto, state, service) ==
    [ip |-> ip, port |-> port, proto |-> proto, state |-> state, service |-> service]

DeltaRows == { DeltaRow("h1", 80, "tcp", "open", "http"),
               DeltaRow("h1", 80, "tcp", "Open", "http"),
               DeltaRow("h1", 80, "tcp", "open", ""),
               DeltaRow("h1", 80, "udp", "open", "http"),
               DeltaRow("h2", 22, "tcp", "open", "ssh"),
               DeltaRow("h2", 22, "tcp", "closed", "ssh") }

InitDelta ==
    /\ scans = <<>>
    /\ db = EmptyDb
    /\ lock = NoProc
    /\ wdb = EmptyDb
    /\ pc = [p \in Procs |-> "idle"]
    /\ loc = [p \in Procs |-> InitLoc]
    /\ \E b_rows, c_rows \in BoundedSeq(DeltaRows, MaxRows) :
          /\ baseline = BuildSnapshot(b_rows)
          /\ current = BuildSnapshot(c_rows)
    /\ report = <<>>

ComputeDelta(p) ==
    /\ pc[p] = "idle"
    /\ \E order \in Perms(DeltaIps(baseline, current)) :
          report' = compute_delta(baseline, current, order)
    /\ pc' = [pc EXCEPT ![p] = "done"]
    /\ UNCHANGED <<scans, db, lock, wdb, loc, baseline, current>>

NextDelta == \E p \in DeltaProcs : ComputeDelta(p)

SpecDelta == InitDelta /\ [][NextDelta]_vars

(***************************************************************************)
(* The comparisons.  They only read the store; each is one call, checked   *)
(* on every store the commands above can leave at db_path and retention    *)
(* can thin out: artifacts recorded whole in any ingestion order, and any  *)
(* baseline rows for tenant t1.                                            *)
(***************************************************************************)
\* Mutant: no "if not r" before r[0]; without an artifact the call raises.
compare_baseline_to_latest_noCheck(p, tenant) ==
    /\ pc[p] = "idle"
    /\ LET latest == LatestAny(db)
       IN IF latest = NoName
          THEN /\ Raise(p, "TypeError")
               /\ UNCHANGED diffVars
          ELSE /\ baseline' = BuildSnapshot(SelectBaseline(init_db(db), tenant))
               /\ current' = BuildSnapshot(SelectPorts(db, latest))
               /\ \E order \in Perms(DeltaIps(baseline', current')) :
                     report' = compute_delta(baseline', current', order)
               /\ loc' = [loc EXCEPT ![p] = [InitLoc EXCEPT !.tenant = tenant,
                                                            !.scan_file = latest,
                                                            !.ret = "latest"]]
               /\ pc' = [pc EXCEPT ![p] = "done"]
               /\ UNCHANGED <<db, lock, wdb>>
    /\ UNCHANGED scans

\* compare_baseline_to_latest(tenant)
compare_baseline_to_latest(p, tenant) ==
    /\ pc[p] = "idle"
    /\ baseline' = BuildSnapshot(SelectBaseline(init_db(db), tenant))
    /\ LET latest == LatestAny(db)
       IN IF latest = NoName
          THEN \* if not r: return {}
               /\ current' = <<>>
               /\ report' = <<>>
               /\ loc' = [loc EXCEPT ![p] = [InitLoc EXCEPT !.tenant = tenant,
                                                            !.ret = "empty"]]
          ELSE /\ current' = BuildSnapshot(SelectPorts(db, latest))
               /\ \E order \in Perms(DeltaIps(baseline', current')) :
                     report' = compute_delta(baseline', current', order)
               /\ loc' = [loc EXCEPT ![p] = [InitLoc EXCEPT !.tenant = tenant,
                                                            !.scan_file = latest,
                                                            !.ret = "latest"]]
    /\ pc' = [pc EXCEPT ![p] = "done"]
    /\ UNCHANGED <<scans, db, lock, wdb>>

\* Mutant: the udp rows are written to the dict before the tcp rows.
CombinedRows_udpFirst(d, latest_tcp, latest_udp) ==
    (IF latest_udp # NoName THEN SelectPorts(d, latest_udp) ELSE <<>>)
       \o (IF latest_tcp # NoName THEN SelectPorts(d, latest_tcp) ELSE <<>>)

\* Mutant: the rows of every recorded artifact are used.
CombinedRows_everyScan(d, latest_tcp, latest_udp) ==
    SelectPortsIn(d, {d.scan_files[i].scan_file : i \in DOMAIN d.scan_files})

\* if latest_tcp: rows of latest_tcp ...; if latest_udp: rows of latest_udp ...
\* (the rows in the order in which they are written to `current`)
CombinedRows(d, latest_tcp, latest_udp) ==
    (IF latest_tcp # NoName THEN SelectPorts(d, latest_tcp) ELSE <<>>)
       \o (IF latest_udp # NoName THEN SelectPorts(d, latest_udp) ELSE <<>>)

\* compare_baseline_to_latest_combined(tenant)
compare_baseline_to_latest_combined(p, tenant) ==
    /\ pc[p] = "idle"
    /\ LET latest_tcp == LatestOfType(db, "tcp")
           latest_udp == LatestOfType(db, "udp")
       IN /\ baseline' = BuildSnapshot(SelectBaseline(init_db(db), tenant))
          /\ current' = BuildSnapshot(CombinedRows(db, latest_tcp, latest_udp))
          /\ loc' = [loc EXCEPT ![p] = [InitLoc EXCEPT !.tenant = tenant,
                                                       !.latest_tcp = latest_tcp,
                                                       !.latest_udp = latest_udp,
                                                       !.ret = "combined"]]
    /\ \E order \in Perms(DeltaIps(baseline', current')) :
          report' = compute_delta(baseline', current', order)
    /\ pc' = [pc EXCEPT ![p] = "done"]
    /\ UNCHANGED <<scans, db, lock, wdb>>

\* The loop body of ingest_all_scans for one new file, from the INSERT into
\* scan_files to the commit.
RECURSIVE InsertPorts(_, _, _)
InsertPorts(d, fname, records) ==
    IF records = <<>> THEN d
    ELSE InsertPorts(InsertPort(d, fname, Head(records)), fname, Tail(records))

IngestOne(d, fname, doc, created_at) ==
    InsertPorts(InsertScanFile(d, fname, ScanTypeOf(fname), created_at),
                fname, parse_nmap_xml_path(doc))

\* The store after the files of q were ingested one after the other.
RECURSIVE StoreAfter(_, _)
StoreAfter(d, q) ==
    IF q = <<>> THEN d
    ELSE StoreAfter(IngestOne(d, Head(q).f, Head(q).doc, 1), Tail(q))

\* The loop of set_baseline over rows, from the DELETE to the commit.
RECURSIVE InsertBaselines(_, _, _, _)
InsertBaselines(d, tenant, rows, set_at) ==
    IF rows = <<>> THEN d
    ELSE InsertBaselines(InsertBaseline(d, tenant, Head(rows), set_at),
                         tenant, Tail(rows), set_at)

\* A file with one of the documents it may hold.
FilePairs == {[f |-> f, doc |-> doc] : f \in FileNames, doc \in Docs}

\* Ingestion histories: up to MaxFiles files of distinct names.
ArtifactSeqs ==
    {q \in BoundedSeq({x \in FilePairs : x.doc \in DocsFor(x.f)}, MaxFiles) :
        \A i, j \in DOMAIN q : i # j => q[i].f # q[j].f}

InitCompare ==
    /\ \E q \in ArtifactSeqs, b_rows \in BoundedSeq(DeltaRows, MaxRows) :
          /\ scans = [f \in {q[i].f : i \in DOMAIN q} |->
                         (CHOOSE x \in Range(q) : x.f = f).doc]
          /\ db = InsertBaselines(DeleteBaseline(StoreAfter(EmptyDb, q), "t1"),
                                  "t1", b_rows, 1)
    /\ lock = NoProc
    /\ wdb = db
    /\ pc = [p \in Procs |-> "idle"]
    /\ loc = [p \in Procs |-> InitLoc]
    /\ baseline = <<>>
    /\ current = <<>>
    /\ report = <<>>

NextCompare ==
    \E p \in DeltaProcs, t \in Tenants :
        \/ compare_baseline_to_latest(p, t)
        \/ compare_baseline_to_latest_combined(p, t)

SpecCompare == InitCompare /\ [][NextCompare]_vars

(***************************************************************************)
(* Properties of the store                                                 *)
(***************************************************************************)
\* The artifact names scan_files holds.
Recorded(d) == {d.scan_files[i].scan_file : i \in DOMAIN d.scan_files}

\* The scan_files rows of one name.
FileRows(d, fname) == SelectSeq(d.scan_files, LAMBDA row : row.scan_file = fname)

\* The baseline_ports rows of one tenant, set_at included.
TenantRows(d, tenant) == SelectSeq(d.baseline_ports, LAMBDA row : row.tenant = tenant)

\* The observations a snapshot holds, as a set of records.
SnapshotObs(snap) ==
    UNION { { [ip |-> snap[i].k, port |-> snap[i].v[j].k[1], proto |-> snap[i].v[j].k[2],
               state |-> snap[i].v[j].v.state, service |-> snap[i].v[j].v.service] :
                 j \in DOMAIN snap[i].v } : i \in DOMAIN snap }

SameKey(r1, r2) == r1.ip = r2.ip /\ r1.port = r2.port /\ r1.proto = r2.proto

HasRepeatedKey(rows) == \E i, j \in DOMAIN rows : i # j /\ SameKey(rows[i], rows[j])

\* C1: ingestion is idempotent per artifact name.  Once a name is recorded in
\* scan_files, no later step adds, removes or changes a ports row of that
\* name or a scan_files row of that name, and a run that meets a recorded
\* name skips it instead of failing on the duplicate.
C1_IngestIdempotent ==
    [][ /\ \A f \in Recorded(db) :
             /\ SelectPorts(db', f) = SelectPorts(db, f)
             /\ FileRows(db', f) = FileRows(db, f)
             /\ Len(FileRows(db, f)) = 1
        /\ loc'["i1"].err # "IntegrityError" ]_vars

\* C1 witness: a later run stands at a file whose name an earlier run has
\* recorded together with its observations.
C1_Witness ==
    /\ pc["i1"] = "loop"
    /\ loc["i1"].files # <<>>
    /\ Head(loc["i1"].files) \in Recorded(db)
    /\ SelectPorts(db, Head(loc["i1"].files)) # <<>>

\* The committed store holds an artifact either not at all or with all the
\* observations of its document.
ArtifactsWhole(dir, d) ==
    /\ \A i \in DOMAIN d.ports : d.ports[i].scan_file \in Recorded(d)
    /\ \A f \in Recorded(d) :
          f \in DOMAIN dir /\ SelectPorts(d, f) = parse_nmap_xml_path(dir[f])

\* C2: of two ingestion runs that interleave on one artifact name, exactly
\* one records the artifact with its observations and the loser treats the
\* duplicate as a no-op: the store holds one scan_files row of the name and
\* the observations of its document, and no run is ended by an exception at
\* a name that the other run has recorded.
C2_RaceLoserNoOp ==
    /\ \A f \in Recorded(db) : Len(FileRows(db, f)) = 1
    /\ ArtifactsWhole(scans, db)
    /\ \A p \in IngestProcs : pc[p] = "raised" => loc[p].fname \notin Recorded(db)

\* C3: every multi-row mutation is all-or-nothing for a reader of the
\* committed store: an artifact is absent with no ports row or present with
\* all of them, and whenever a tenant's baseline changes it changes in one
\* step from the old set to the complete new set of the writer that commits.
C3_AllOrNothing ==
    /\ ArtifactsWhole(scans, db)
    /\ [][ /\ (scans' # scans \/ db' # db) => ArtifactsWhole(scans', db')
           /\ \A t \in Tenants :
                TenantRows(db', t) # TenantRows(db, t) =>
                   \E p \in BaselineProcs :
                       /\ lock = p
                       /\ loc[p].tenant = t
                       /\ loc[p].n = Len(loc[p].rows)
                       /\ SelectBaseline(db', t) = loc[p].rows
                       /\ \A i \in DOMAIN TenantRows(db', t) :
                             TenantRows(db', t)[i].set_at = loc[p].set_at ]_vars

\* C3 witness: a baseline replace is half done inside its transaction (the
\* old entries deleted, some of the new ones inserted) while the committed
\* store still holds the old baseline.
C3_Witness ==
    /\ pc["b1"] \in {"bl_insert", "cb_insert"}
    /\ loc["b1"].n > 0
    /\ loc["b1"].n < Len(loc["b1"].rows)
    /\ TenantRows(db, loc["b1"].tenant) # <<>>
    /\ TenantRows(wdb, loc["b1"].tenant) # TenantRows(db, loc["b1"].tenant)

\* C4: setting a baseline is a full replace.  When set_baseline commits, the
\* tenant's baseline is exactly the observations of the chosen artifact, and
\* when set_baseline_combined commits it is exactly the rows it was given;
\* nothing of the previous baseline is left.
C4_FullReplace ==
    [][ \A p \in BaselineProcs :
          /\ (pc[p] = "bl_insert" /\ pc'[p] = "idle") =>
                SelectBaseline(db', loc[p].tenant) = SelectPorts(db, loc[p].scan_file)
          /\ (pc[p] = "cb_insert" /\ pc'[p] = "idle") =>
                SelectBaseline(db', loc[p].tenant) = loc[p].rows ]_vars

\* C4 witness: the baseline held entries and the replace that is about to
\* commit sets it to the empty set.
C4_Witness ==
    /\ pc["b1"] \in {"bl_insert", "cb_insert"}
    /\ loc["b1"].rows = <<>>
    /\ TenantRows(db, loc["b1"].tenant) # <<>>
    /\ TenantRows(wdb, loc["b1"].tenant) = <<>>

\* C5: for every tenant the committed store holds at most one baseline entry
\* per (host, port, protocol).
C5_OneEntryPerKey ==
    \A i, j \in DOMAIN db.baseline_ports :
        (i # j /\ db.baseline_ports[i].tenant = db.baseline_ports[j].tenant)
            => ~SameKey(db.baseline_ports[i], db.baseline_ports[j])

Kinds == {"tcp", "udp", "unknown"}

\* C6: the latest artifact of a kind is the one of that kind ingested last.
\* The lookup returns none while no artifact of the kind is recorded; a step
\* that records an artifact of kind k makes it the latest of kind k and
\* leaves the latest of every other kind as it was, whatever its created_at
\* and the timestamp in its name.
C6_LatestIsLastIngested ==
    [][ \A k \in Kinds :
          LET old == {r \in Range(db.scan_files) : r.scan_type = k}
              new == {r \in Range(db'.scan_files) : r.scan_type = k} \ old
          IN /\ old = {} => LatestOfType(db, k) = NoName
             /\ IF new # {}
                THEN \A r \in new : LatestOfType(db', k) = r.scan_file
                ELSE LatestOfType(db', k) = LatestOfType(db, k) ]_vars

\* C6 witness: the latest tcp artifact has an earlier created_at and an
\* earlier timestamp in its name than another tcp artifact.
C6_Witness ==
    \E r1, r2 \in Range(db.scan_files) :
        /\ r1.scan_type = "tcp" /\ r2.scan_type = "tcp"
        /\ LatestOfType(db, "tcp") = r1.scan_file
        /\ r1.created_at < r2.created_at
        /\ r1.scan_file.ts < r2.scan_file.ts

\* C7 as claimed: the snapshot read back for a recorded artifact holds
\* exactly the observations the parser produced for it.
C7_RoundTripAll ==
    \A f \in Recorded(db) :
        SnapshotObs(BuildSnapshot(SelectPorts(db, f))) = Range(parse_nmap_xml_path(scans[f]))

\* C7 amended: the snapshot read back for a recorded artifact holds, for each
\* (host, port, protocol) the parser produced, the last observation the
\* parser produced for that key, and nothing else; it equals the parser's
\* set when the artifact repeats no key.
C7_RoundTripLastWins ==
    \A f \in Recorded(db) :
        LET recs == parse_nmap_xml_path(scans[f])
            snap == BuildSnapshot(SelectPorts(db, f))
        IN /\ SnapshotObs(snap) =
                 {recs[i] : i \in {a \in DOMAIN recs :
                                      \A b \in DOMAIN recs : b > a => ~SameKey(recs[a], recs[b])}}
           /\ ~HasRepeatedKey(recs) => SnapshotObs(snap) = Range(recs)

\* C7 witness: a recorded artifact whose document repeats a key, and one
\* whose document repeats none and has observations.
C7_Witness ==
    /\ \E f \in Recorded(db) : HasRepeatedKey(parse_nmap_xml_path(scans[f]))
    /\ \E f \in Recorded(db) : /\ ~HasRepeatedKey(parse_nmap_xml_path(scans[f]))
                               /\ SelectPorts(db, f) # <<>>

\* C18: a document that does not parse does not abort the batch.  The run
\* is never ended by an exception; it steps through its list one file at a
\* time and returns only at the end of the list; and when it leaves a file
\* behind, the file is recorded with all the observations of its document.
C18_CorruptDoesNotAbort ==
    /\ [](pc["i1"] # "raised")
    /\ [][ LET files == loc["i1"].files
           IN /\ (pc["i1"] # "idle" /\ pc'["i1"] = "idle") => files = <<>>
              /\ pc["i1"] # "idle" =>
                    \/ loc'["i1"].files = files
                    \/ /\ files # <<>>
                       /\ loc'["i1"].files = Tail(files)
                       /\ Head(files) \in Recorded(db')
                       /\ SelectPorts(db', Head(files)) =
                             parse_nmap_xml_path(scans[Head(files)]) ]_vars

\* C18 witness: the run has just failed to parse the document of the file
\* it stands at, and the next file of its list is new and has observations.
C18_Witness ==
    /\ pc["i1"] = "insert_ports"
    /\ ~scans[loc["i1"].fname].ok
    /\ Len(loc["i1"].files) >= 2
    /\ loc["i1"].files[2] \notin Recorded(db)
    /\ parse_nmap_xml_path(scans[loc["i1"].files[2]]) # <<>>

\* C19: no artifact is recorded for a file whose document does not parse.
C19_CorruptNotRecorded ==
    \A f \in Recorded(db) : scans[f].ok

\* The positions of a baseline command from its DELETE to its commit.
ReplacePcs == {"bl_delete", "bl_select", "bl_insert", "cb_delete", "cb_insert"}

\* C20: a baseline replace that fails leaves the baseline as it was and
\* tells its caller.  No step of a baseline command other than its
\* successful commit changes a committed baseline entry, and a command that
\* leaves the delete-then-insert sequence without that commit holds no lock
\* and no pending write, and ends with an exception (set_baseline) or with
\* exit code 30 (create_baseline).
C20_FailedReplaceKeepsBaseline ==
    [][ \A p \in BaselineProcs :
          LET committed == /\ pc[p] \in {"bl_insert", "cb_insert"}
                           /\ pc'[p] = "idle"
                           /\ loc'[p].rc = 0
          IN /\ ~committed =>
                   \A t \in Tenants : TenantRows(db', t) = TenantRows(db, t)
             /\ (pc[p] \in ReplacePcs /\ pc'[p] \notin ReplacePcs /\ ~committed) =>
                   /\ lock' # p
                   /\ lock' = NoProc => wdb' = db'
                   /\ \/ pc'[p] = "raised" /\ loc'[p].err = "OperationalError"
                      \/ pc'[p] = "idle" /\ loc'[p].rc = 30 ]_vars

\* C20 witness: set_baseline has failed after the DELETE and one of two
\* INSERTs, and the tenant's earlier baseline is in the store.
C20_Witness ==
    /\ pc["b1"] = "raised"
    /\ loc["b1"].n > 0
    /\ loc["b1"].n < Len(loc["b1"].rows)
    /\ lock = NoProc
    /\ TenantRows(db, loc["b1"].tenant) # <<>>
    /\ \E i \in DOMAIN TenantRows(db, loc["b1"].tenant) :
          TenantRows(db, loc["b1"].tenant)[i].set_at # loc["b1"].set_at

(***************************************************************************)
(* Properties of the delta engine                                          *)
(***************************************************************************)
DeltaHosts == {r.ip : r \in DeltaRows}
DeltaKeys  == {<<r.port, r.proto>> : r \in DeltaRows}

NoEntry == [added |-> <<>>, removed |-> <<>>, changed |-> <<>>]
NoValue == [state |-> "<absent>", service |-> "<absent>"]

\* snapshot[h] with a missing host read as the empty map.
HostMap(snap, h) == DictGet(snap, h, <<>>)
HostKeys(snap, h) == DictKeys(HostMap(snap, h))
HostVal(snap, h, k) == DictGet(HostMap(snap, h), k, NoValue)

\* The report's entry of a host, the three empty lists for a host it omits.
ReportEntry(h) == DictGet(report, h, NoEntry)

\* The keys a list of the report names.
ListKeys(list) == {list[i][1] : i \in DOMAIN list}

\* C8: diff classifies keys by presence.  A key is in the added list of a
\* host exactly when current has it for the host and baseline has not, and
\* in the removed list exactly when baseline has it and current has not;
\* each entry is listed once and carries the observation of the side that
\* has the key.
C8_AddedRemovedByPresence ==
    pc["d1"] = "done" =>
        \A h \in DeltaHosts :
            LET e == ReportEntry(h)
            IN /\ ListKeys(e.added) = HostKeys(current, h) \ HostKeys(baseline, h)
               /\ ListKeys(e.removed) = HostKeys(baseline, h) \ HostKeys(current, h)
               /\ Cardinality(ListKeys(e.added)) = Len(e.added)
               /\ Cardinality(ListKeys(e.removed)) = Len(e.removed)
               /\ \A i \in DOMAIN e.added : e.added[i][2] = HostVal(current, h, e.added[i][1])
               /\ \A i \in DOMAIN e.removed :
                     e.removed[i][2] = HostVal(baseline, h, e.removed[i][1])

\* C8 witness: a report with an added key on a host that both snapshots
\* have, and a removed key on a host that current lacks.
C8_Witness ==
    /\ pc["d1"] = "done"
    /\ \E h \in DeltaHosts :
          /\ ReportEntry(h).added # <<>>
          /\ HostKeys(baseline, h) # {}
          /\ ReportEntry(h).removed = <<>> /\ ReportEntry(h).changed = <<>>
    /\ \E h \in DeltaHosts : ReportEntry(h).removed # <<>> /\ ~DictHas(current, h)

\* C9: a key is in the changed list of a host exactly when both snapshots
\* have it for the host with different (state, service) pairs, compared as
\* exact strings; the entry carries the baseline value as old and the
\* current value as new; a key with equal pairs is in none of the lists.
C9_ChangedExact ==
    pc["d1"] = "done" =>
        \A h \in DeltaHosts :
            LET e == ReportEntry(h)
                both == HostKeys(baseline, h) \cap HostKeys(current, h)
            IN /\ ListKeys(e.changed) =
                     {k \in both : HostVal(baseline, h, k) # HostVal(current, h, k)}
               /\ Cardinality(ListKeys(e.changed)) = Len(e.changed)
               /\ \A i \in DOMAIN e.changed :
                     /\ e.changed[i][2] = HostVal(baseline, h, e.changed[i][1])
                     /\ e.changed[i][3] = HostVal(current, h, e.changed[i][1])
               /\ \A k \in both :
                     HostVal(baseline, h, k) = HostVal(current, h, k) =>
                        k \notin ListKeys(e.added) \cup ListKeys(e.removed) \cup ListKeys(e.changed)

\* C9 witness: a changed entry whose old and new values differ in the case
\* of the state only, on a host with nothing added or removed, while a host
\* whose observations are equal on both sides is left out of the report.
C9_Witness ==
    /\ pc["d1"] = "done"
    /\ \E h \in DeltaHosts : \E i \in DOMAIN ReportEntry(h).changed :
          LET c == ReportEntry(h).changed[i]
          IN /\ c[2].state = "open" /\ c[3].state = "Open"
             /\ c[2].service = c[3].service
             /\ ReportEntry(h).added = <<>> /\ ReportEntry(h).removed = <<>>
    /\ \E h \in DeltaHosts : HostKeys(baseline, h) # {} /\ ~DictHas(report, h)

\* C10: diff(X, X) is the empty report, for every snapshot X (two snapshots
\* that hold the same observations are the same mapping).
C10_DiffSelfEmpty ==
    (pc["d1"] = "done" /\ SnapshotObs(baseline) = SnapshotObs(current)) => report = <<>>

\* C10 witness: the diff of a snapshot of two hosts with itself.
C10_Witness ==
    /\ pc["d1"] = "done"
    /\ baseline = current
    /\ Len(baseline) = 2

\* A host drifts when the two snapshots differ on one of its keys, in
\* presence or in value.
Drifts(h) ==
    \E k \in HostKeys(baseline, h) \cup HostKeys(current, h) :
        HostVal(baseline, h, k) # HostVal(current, h, k)

\* C11: a host is a key of the report exactly when it drifts, that is when
\* one of its added, removed or changed lists is non-empty; it is a key at
\* most once, and no entry of the report has three empty lists.
C11_HostIffDrift ==
    pc["d1"] = "done" =>
        /\ \A h \in DeltaHosts : DictHas(report, h) <=> Drifts(h)
        /\ Cardinality(DictKeys(report)) = Len(report)
        /\ \A i \in DOMAIN report :
              /\ report[i].k \in DeltaHosts
              /\ report[i].v # NoEntry

\* C11 witness: of two hosts that both snapshots hold, one drifts and is in
\* the report and the other does not and is left out.
C11_Witness ==
    /\ pc["d1"] = "done"
    /\ \E h1, h2 \in DeltaHosts :
          /\ DictHas(baseline, h1) /\ DictHas(current, h1) /\ DictHas(report, h1)
          /\ DictHas(baseline, h2) /\ DictHas(current, h2) /\ ~DictHas(report, h2)

\* Ascending order of the host identifiers.
HostRank(h) == CASE h = "h1" -> 1 [] h = "h2" -> 2

\* C12: the report of diff lists its hosts in ascending order of host
\* identifier.
C12_HostsAscending ==
    pc["d1"] = "done" =>
        \A i, j \in DOMAIN report : i < j => HostRank(report[i].k) < HostRank(report[j].k)

(***************************************************************************)
(* Properties of the comparisons                                           *)
(***************************************************************************)
\* The scan_files rows of one kind.
OfKind(d, k) == {r \in Range(d.scan_files) : r.scan_type = k}

\* f is the artifact of kind k ingested last, NoName when there is none.
IsNewestOfKind(d, k, f) ==
    IF OfKind(d, k) = {} THEN f = NoName
    ELSE \E r \in OfKind(d, k) :
            /\ r.scan_file = f
            /\ \A r2 \in OfKind(d, k) : r2.id <= r.id

\* The observations the parser produced for an artifact, none for NoName.
ArtifactObs(f) == IF f = NoName THEN <<>> ELSE parse_nmap_xml_path(scans[f])

\* Of a list of observations, the last one of every (host, port, protocol).
LastPerKey(rows) ==
    {rows[i] : i \in {a \in DOMAIN rows :
                        \A b \in DOMAIN rows : b > a => ~SameKey(rows[a], rows[b])}}

\* The value {state, service} of an observation.
ObsVal(r) == [state |-> r.state, service |-> r.service]

\* C13: the combined comparison returns as latest_tcp and latest_udp the
\* artifact of each kind that was ingested last (none for a kind without an
\* artifact), and its current snapshot holds the observations of these two
\* artifacts and of no other artifact.
C13_CombinedFromLatestPerKind ==
    (pc["d1"] = "done" /\ loc["d1"].ret = "combined") =>
        LET tcp == loc["d1"].latest_tcp
            udp == loc["d1"].latest_udp
        IN /\ IsNewestOfKind(db, "tcp", tcp)
           /\ IsNewestOfKind(db, "udp", udp)
           /\ SnapshotObs(current) = LastPerKey(ArtifactObs(tcp) \o ArtifactObs(udp))
           /\ {<<r.ip, r.port, r.proto>> : r \in SnapshotObs(current)} =
                 {<<r.ip, r.port, r.proto>> : r \in Range(ArtifactObs(tcp))
                                                     \cup Range(ArtifactObs(udp))}

\* C13 witness: the store holds an older tcp artifact with observations that
\* the latest ones lack, a kind has no artifact, and the other has one.
C13_Witness ==
    /\ pc["d1"] = "done" /\ loc["d1"].ret = "combined"
    /\ loc["d1"].latest_udp = NoName
    /\ loc["d1"].latest_tcp # NoName
    /\ \E f \in Recorded(db) :
          /\ f # loc["d1"].latest_tcp
          /\ \E r \in Range(ArtifactObs(f)) : r \notin SnapshotObs(current)

\* C14: when the latest tcp and the latest udp artifact both hold an
\* observation of one (host, port, protocol), the combined snapshot has the
\* {state, service} of the udp artifact for it, and the comparison returns.
C14_LaterKindWins ==
    (pc["d1"] = "done" /\ loc["d1"].ret = "combined") =>
        \A r1 \in Range(ArtifactObs(loc["d1"].latest_tcp)) :
            \A r2 \in LastPerKey(ArtifactObs(loc["d1"].latest_udp)) :
                SameKey(r1, r2) =>
                    HostVal(current, r2.ip, <<r2.port, r2.proto>>) = ObsVal(r2)

\* C14 witness: the two artifacts collide on a key with different values.
C14_Witness ==
    /\ pc["d1"] = "done" /\ loc["d1"].ret = "combined"
    /\ \E r1 \in Range(ArtifactObs(loc["d1"].latest_tcp)) :
          \E r2 \in Range(ArtifactObs(loc["d1"].latest_udp)) :
              SameKey(r1, r2) /\ ObsVal(r1) # ObsVal(r2)

\* C15: when the latest tcp artifact and the latest udp artifact report one
\* host and one port number with different protocols, the combined snapshot
\* has an entry for each of the two keys (port, protocol), each with the
\* value of the last observation of its own key.
C15_DistinctPerProtocol ==
    (pc["d1"] = "done" /\ loc["d1"].ret = "combined") =>
        LET rows == ArtifactObs(loc["d1"].latest_tcp) \o ArtifactObs(loc["d1"].latest_udp)
        IN \A r1 \in Range(ArtifactObs(loc["d1"].latest_tcp)) :
             \A r2 \in Range(ArtifactObs(loc["d1"].latest_udp)) :
               (r1.ip = r2.ip /\ r1.port = r2.port /\ r1.proto # r2.proto) =>
                   /\ {<<r1.port, r1.proto>>, <<r2.port, r2.proto>>}
                         \subseteq HostKeys(current, r1.ip)
                   /\ \A r \in {r1, r2} : \E x \in LastPerKey(rows) :
                         /\ SameKey(x, r)
                         /\ HostVal(current, r.ip, <<r.port, r.proto>>) = ObsVal(x)

\* C15 witness: port 80 of one host as tcp in the tcp artifact and as udp in
\* the udp artifact.
C15_Witness ==
    /\ pc["d1"] = "done" /\ loc["d1"].ret = "combined"
    /\ \E r1 \in Range(ArtifactObs(loc["d1"].latest_tcp)) :
          \E r2 \in Range(ArtifactObs(loc["d1"].latest_udp)) :
              /\ r1.ip = r2.ip /\ r1.port = r2.port
              /\ r1.proto = "tcp" /\ r2.proto = "udp"
    /\ Len(HostMap(current, "h1")) = 2

\* The baseline entries of the tenant a comparison was called for.
ComparedRows == SelectSeq(db.baseline_ports, LAMBDA row : row.tenant = loc["d1"].tenant)

\* C16: a comparison of a non-empty baseline against a store without
\* artifacts returns a report that lists every baseline entry as removed and
\* nothing as added or changed.
C16_NoArtifactsAllRemoved ==
    (pc["d1"] = "done" /\ db.scan_files = <<>> /\ ComparedRows # <<>>) =>
        /\ loc["d1"].ret \in {"latest", "combined"}
        /\ \A h \in DeltaHosts :
              /\ ReportEntry(h).added = <<>>
              /\ ReportEntry(h).changed = <<>>
              /\ {<<h, e[1][1], e[1][2]>> : e \in Range(ReportEntry(h).removed)} =
                    {<<r.ip, r.port, r.proto>> : r \in {x \in Range(ComparedRows) : x.ip = h}}

\* C17: a tenant without baseline entries has the empty baseline snapshot,
\* and a comparison for it lists every observation of the current snapshot
\* as added and nothing as removed or changed.
C17_NoBaselineAllAdded ==
    (pc["d1"] = "done" /\ ComparedRows = <<>>) =>
        /\ baseline = <<>>
        /\ loc["d1"].ret = "empty" => db.scan_files = <<>>
        /\ loc["d1"].ret = "latest" =>
              SnapshotObs(current) = LastPerKey(ArtifactObs(loc["d1"].scan_file))
        /\ \A h \in DeltaHosts :
              /\ ReportEntry(h).removed = <<>>
              /\ ReportEntry(h).changed = <<>>
              /\ {[ip |-> h, port |-> e[1][1], proto |-> e[1][2],
                   state |-> e[2].state, service |-> e[2].service] :
                      e \in Range(ReportEntry(h).added)} =
                    {r \in SnapshotObs(current) : r.ip = h}
              /\ Len(ReportEntry(h).added) = Cardinality(HostKeys(current, h))

\* C17 witness: another tenant has a baseline, the compared tenant has none,
\* and the report lists two added observations.
C17_Witness ==
    /\ pc["d1"] = "done"
    /\ loc["d1"].tenant = "t2"
    /\ TenantRows(db, "t1") # <<>>
    /\ Len(ReportEntry("h1").added) = 2

(***************************************************************************)
(* Every command of the core at one store: the writers for tenant t1, and  *)
(* a comparison.  The comparisons only read the store, so a run is cut at  *)
(* its comparison: what the writers do after it is what they do without it.*)
(***************************************************************************)
\* The files the scanners leave: one udp and one tcp artifact.
OpsNames == {[ts |-> 2, tag |-> "udp"], [ts |-> 3, tag |-> "tcp"]}

Writers(Ts) ==
    \/ \E f \in OpsNames : \E doc \in DocsFor(f) : ScanArrives(f, doc)
    \/ Ingest("i1")
    \/ \E p \in BaselineProcs : SetBaseline(p, Ts) \/ CreateBaseline(p, Ts)

NextOps ==
    \/ pc["d1"] = "idle" /\ Writers({"t1"})
    \/ compare_baseline_to_latest("d1", "t1")
    \/ compare_baseline_to_latest_combined("d1", "t1")

SpecOps == Init /\ [][NextOps]_vars

\* C21: an artifact is created once per name and never changes.  No step of
\* ingest, set baseline or compare modifies or deletes a row of scan_files or
\* of ports (the rows keep their place in rowid order, with kind and
\* ingestion timestamp as recorded), and scan_files never holds two rows of
\* one name.
C21_ArtifactsImmutable ==
    [][ /\ \A i \in DOMAIN db.scan_files :
             i \in DOMAIN db'.scan_files /\ db'.scan_files[i] = db.scan_files[i]
        /\ \A i \in DOMAIN db.ports :
             i \in DOMAIN db'.ports /\ db'.ports[i] = db.ports[i]
        /\ \A i, j \in DOMAIN db'.scan_files :
             db'.scan_files[i].scan_file = db'.scan_files[j].scan_file => i = j ]_vars

\* C21 witness: two artifacts with observations are recorded, the baseline
\* of t1 was replaced from them, and a comparison has run.
C21_Witness ==
    /\ Len(db.scan_files) = 2
    /\ db.ports # <<>>
    /\ TenantRows(db, "t1") # <<>>
    /\ pc["d1"] = "done"

(***************************************************************************)
(* The parser on documents of every shape: one file in the directory,      *)
(* holding a host entry with any address list, with or without a port      *)
(* container, with up to MaxRows port entries of any kind, alone or        *)
(* followed by a second host entry; one ingestion at the store.            *)
(***************************************************************************)
\* Port entries: well-formed; a number that is no integer; no portid
\* attribute; a padded literal with no protocol attribute, a state element
\* without state attribute and a service element without name; a number above
\* 65535; a negative number.
PortEls ==
    { PortEl(<<"8", "0">>, "tcp", "open", "http"),
      PortEl(<<"x">>, "tcp", "open", "http"),
      PortEl(NoAttr, "udp", NoElem, NoElem),
      PortEl(<<" ", "8", "_", "1", " ">>, None, None, None),
      PortEl(<<"7", "0", "0", "0", "0">>, "tcp", "open", NoElem),
      PortEl(<<"-", "1">>, "tcp", "closed", "http") }

\* Address lists: none; one address; an address element without addr
\* attribute and an empty one before the address.
AddrLists == { <<>>, <<"h1">>, <<None, "", "h2">> }

HostEls ==
    {HostNoPorts(a) : a \in AddrLists}
       \cup {HostEl(a[1], a[2]) : a \in AddrLists \X BoundedSeq(PortEls, MaxRows)}

\* The host entries that may follow the first one.
TrailingHosts ==
    { HostEl(<<"h3">>, << PortEl(<<"2", "2">>, "tcp", "open", "ssh") >>),
      HostEl(<<"">>, << PortEl(<<"2", "2">>, "tcp", "open", "ssh") >>),
      HostNoPorts(<<"h3">>) }

ParseDocs ==
    {DocCorrupt}
       \cup {[ok |-> TRUE, hosts |-> <<h>>] : h \in HostEls}
       \cup {[ok |-> TRUE, hosts |-> <<x[1], x[2]>>] : x \in HostEls \X TrailingHosts}

ParsedFile == [ts |-> 3, tag |-> "tcp"]

InitParse ==
    /\ \E doc \in ParseDocs : scans = [f \in {ParsedFile} |-> doc]
    /\ db = EmptyDb
    /\ lock = NoProc
    /\ wdb = EmptyDb
    /\ pc = [p \in Procs |-> "idle"]
    /\ loc = [p \in Procs |-> InitLoc]
    /\ baseline = <<>>
    /\ current = <<>>
    /\ report = <<>>

NextParse ==
    \/ IngestStart("i1")
    \/ IngestEnd("i1")
    \/ IngestSelect("i1")
    \/ IngestInsertFile("i1")
    \/ IngestInsertPort("i1")
    \/ IngestCommit("i1")

SpecParse == InitParse /\ [][NextParse]_vars

\* What int() returns for the portid texts of the documents above that it
\* accepts; it raises on every other text and on None.
IntTexts ==
    (<<"8", "0">> :> 80) @@ (<<" ", "8", "_", "1", " ">> :> 81) @@
    (<<"7", "0", "0", "0", "0">> :> 70000) @@ (<<"-", "1">> :> (0 - 1)) @@
    (<<"2", "2">> :> 22)

\* A host entry has an address element with a non-empty addr attribute.
Resolvable(host) == \E i \in DOMAIN host.addrs : host.addrs[i] \notin {None, ""}

AddrOf(host) ==
    host.addrs[CHOOSE i \in DOMAIN host.addrs :
                  /\ host.addrs[i] \notin {None, ""}
                  /\ \A j \in 1..(i - 1) : host.addrs[j] \in {None, ""}]

\* The (host, port number) pairs of the port entries that are to be emitted,
\* in document order.
RECURSIVE Emitted(_)
Emitted(hosts) ==
    IF hosts = <<>> THEN <<>>
    ELSE LET h == Head(hosts)
             good == SelectSeq(h.ports.ports, LAMBDA e : e.portid \in DOMAIN IntTexts)
         IN (IF Resolvable(h) /\ h.ports.present
             THEN [i \in DOMAIN good |-> <<AddrOf(h), IntTexts[good[i].portid]>>]
             ELSE <<>>) \o Emitted(Tail(hosts))

\* C22: the parser emits one observation per port entry whose host entry has
\* a resolvable address and a port container and whose port number parses as
\* an integer, in document order, and none for any other entry; a skipped
\* entry raises nothing and drops no other entry.
C22_EmitsExactlyParseable ==
    [][ (pc["i1"] = "insert_file" /\ pc'["i1"] = "insert_ports") =>
          [i \in DOMAIN loc'["i1"].records |->
              <<loc'["i1"].records[i].ip, loc'["i1"].records[i].port>>]
            = Emitted(scans[ParsedFile].hosts) ]_vars

\* C22 witness: the document starts with a host entry that is skipped, a
\* second host entry follows, and its observation is recorded.
C22_Witness ==
    /\ pc["i1"] = "idle"
    /\ scans[ParsedFile].ok
    /\ Len(scans[ParsedFile].hosts) = 2
    /\ ~Resolvable(scans[ParsedFile].hosts[1])
    /\ scans[ParsedFile].hosts[1].ports.present
    /\ Len(scans[ParsedFile].hosts[1].ports.ports) = 2
    /\ Len(db.ports) = 1
    /\ db.ports[1].ip = "h3"

\* C23: every observation the parser emits, and every row recorded from
\* one, has a string as protocol, state and service (the empty string where
\* the document lacks the field), never None.
C23_FieldsAreStrings ==
    /\ \A i \in DOMAIN loc["i1"].records :
          /\ loc["i1"].records[i].proto # None
          /\ loc["i1"].records[i].state # None
          /\ loc["i1"].records[i].service # None
    /\ \A i \in DOMAIN db.ports :
          /\ db.ports[i].proto # None
          /\ db.ports[i].state # None
          /\ db.ports[i].service # None

(***************************************************************************)
(* Port numbers from the document to the baseline: one file with one host  *)
(* entry and one port entry of any kind, an ingestion and set_baseline.    *)
(***************************************************************************)
RangeDocs == {[ok |-> TRUE, hosts |-> << HostEl(<<"h1">>, <<e>>) >>] : e \in PortEls}

InitRange ==
    /\ \E doc \in RangeDocs : scans = [f \in {ParsedFile} |-> doc]
    /\ db = EmptyDb
    /\ lock = NoProc
    /\ wdb = EmptyDb
    /\ pc = [p \in Procs |-> "idle"]
    /\ loc = [p \in Procs |-> InitLoc]
    /\ baseline = <<>>
    /\ current = <<>>
    /\ report = <<>>

NextRange ==
    \/ Ingest("i1")
    \/ SetBaseline("b1", {"t1"})

SpecRange == InitRange /\ [][NextRange]_vars

\* C24: every recorded observation and every baseline entry has a port
\* number in 0..65535.
C24_PortInRange ==
    /\ \A i \in DOMAIN db.ports : db.ports[i].port \in 0..65535
    /\ \A i \in DOMAIN db.baseline_ports : db.baseline_ports[i].port \in 0..65535

\* C25: missing data is a result.  A comparison on a store without
\* artifacts or for a tenant without baseline entries ends without an
\* exception and returns a dict, and the report is empty when there is
\* neither an artifact nor a baseline entry to compare.
C25_MissingDataIsResult ==
    (/\ pc["d1"] # "idle"
     /\ db.scan_files = <<>> \/ TenantRows(db, loc["d1"].tenant) = <<>>) =>
        /\ pc["d1"] = "done"
        /\ loc["d1"].err = "none"
        /\ loc["d1"].ret \in {"empty", "latest", "combined"}
        /\ (db.scan_files = <<>> /\ TenantRows(db, loc["d1"].tenant) = <<>>) =>
              report = <<>>

\* C25 witness: compare_baseline_to_latest has returned {} on a store that
\* holds baseline entries and no artifact.
C25_Witness ==
    /\ pc["d1"] = "done"
    /\ db.scan_files = <<>>
    /\ TenantRows(db, loc["d1"].tenant) # <<>>
    /\ loc["d1"].ret = "empty"

(***************************************************************************)
(* Two tenants at one store: ingestion and the two baseline commands for   *)
(* either tenant.                                                          *)
(***************************************************************************)
NextTenants == Writers(Tenants)

SpecTenants == Init /\ [][NextTenants]_vars

\* C26: tenant isolation.  What a baseline command for tenant t commits
\* leaves the baseline entries of every other tenant, scan_files and ports
\* as they were; what any other command commits leaves every baseline entry
\* as it was.
C26_TenantIsolation ==
    [][ /\ lock = "b1" =>
             /\ db'.scan_files = db.scan_files
             /\ db'.ports = db.ports
             /\ \A t \in Tenants \ {loc["b1"].tenant} :
                   TenantRows(db', t) = TenantRows(db, t)
        /\ lock # "b1" => db'.baseline_ports = db.baseline_ports ]_vars

\* C26 witness: both tenants hold baseline entries, taken from different
\* artifacts, and the DELETE of a further replace has run.
C26_Witness ==
    /\ TenantRows(db, "t1") # <<>>
    /\ TenantRows(db, "t2") # <<>>
    /\ SelectBaseline(db, "t1") # SelectBaseline(db, "t2")
    /\ lock = "b1"
    /\ TenantRows(wdb, loc["b1"].tenant) = <<>>

(***************************************************************************)
(* Ingestion runs that fail part-way: an INSERT INTO ports raises (a full  *)
(* disk, an I/O error, a value the store cannot hold).  ingest_all_scans   *)
(* has no handler: the run ends, and the open transaction is rolled back   *)
(* when its connection is closed.                                          *)
(***************************************************************************)
IngestFail(p) ==
    /\ pc[p] = "insert_ports"
    /\ lock = p
    /\ loc[p].records # <<>>
    /\ Raise(p, "OperationalError")
    /\ UNCHANGED <<scans, diffVars>>

NextCrash ==
    \/ \E f \in OpsNames : \E doc \in DocsFor(f) : ScanArrives(f, doc)
    \/ \E p \in IngestProcs : Ingest(p) \/ IngestFail(p)

SpecCrash == Init /\ [][NextCrash]_vars

\* C27: in every committed state each ports row names an artifact that
\* scan_files records, also after ingestion runs that failed part-way.
C27_ObservationHasArtifact ==
    \A i \in DOMAIN db.ports :
        \E j \in DOMAIN db.scan_files : db.scan_files[j].scan_file = db.ports[i].scan_file

\* C27 witness: a run failed after it had inserted some of a file's
\* observations; the store holds the observations of another artifact, and
\* the file of the failed run is not recorded.
C27_Witness ==
    /\ pc["i1"] = "raised"
    /\ loc["i1"].records # <<>>
    /\ Len(loc["i1"].records) < Len(parse_nmap_xml_path(scans[loc["i1"].fname]))
    /\ loc["i1"].fname \notin Recorded(db)
    /\ db.ports # <<>>
    /\ lock = NoProc

\* C28: set_baseline(t) from the latest artifact, then
\* compare_baseline_to_latest(t) with no ingestion in between, gives an
\* empty report.  When set_baseline commits and the artifact it copied is the
\* latest one, the tenant's entries are that artifact's observations, row by
\* row; and a comparison that starts from such a store reports nothing,
\* repeated (host, port, protocol) observations included.
C28_SetThenCompareEmpty ==
    [][ /\ (/\ pc["b1"] = "bl_insert" /\ pc'["b1"] = "idle"
            /\ loc["b1"].scan_file = LatestAny(db')) =>
              SelectBaseline(db', loc["b1"].tenant) = SelectPorts(db', loc["b1"].scan_file)
        /\ (/\ pc["d1"] = "idle" /\ pc'["d1"] = "done"
            /\ loc'["d1"].ret = "latest"
            /\ SelectBaseline(db, "t1") = SelectPorts(db, LatestAny(db))) =>
              report' = <<>> ]_vars

\* C28 witness: the baseline of t1 is the latest artifact row by row, the
\* artifact repeats a key, and the comparison has returned its report.
C28_Witness ==
    /\ pc["d1"] = "done"
    /\ loc["d1"].ret = "latest"
    /\ TenantRows(db, "t1") # <<>>
    /\ SelectBaseline(db, "t1") = SelectPorts(db, loc["d1"].scan_file)
    /\ HasRepeatedKey(SelectPorts(db, loc["d1"].scan_file))
    /\ Len(db.scan_files) = 2
    /\ report = <<>>

(***************************************************************************)
(* set_baseline(tenant) with no scan file argument, on every store the     *)
(* comparisons are checked on: with and without artifacts, with and        *)
(* without baseline entries of t1.                                         *)
(***************************************************************************)
NextReset ==
    \/ \E t \in Tenants : SetBaselineStart("b1", t, NoName)
    \/ SetBaselineLatest("b1")
    \/ SetBaselineDelete("b1")
    \/ SetBaselineSelect("b1")
    \/ SetBaselineInsert("b1")
    \/ SetBaselineCommit("b1")

SpecReset == InitCompare /\ [][NextReset]_vars

\* C29: while the store holds no artifact, set_baseline(tenant) changes
\* nothing: no step of it opens a transaction (the DELETE is not executed)
\* and every baseline entry stays as it was.
C29_NoArtifactNoChange ==
    [][ db.scan_files = <<>> =>
          /\ db' = db
          /\ wdb' = wdb
          /\ lock' = NoProc ]_vars

\* C29 witness: set_baseline(t1) stands at the query for the latest
\* artifact on a store that holds baseline entries of t1 and no artifact.
C29_Witness ==
    /\ pc["b1"] = "bl_latest"
    /\ loc["b1"].tenant = "t1"
    /\ loc["b1"].scan_file = NoName
    /\ db.scan_files = <<>>
    /\ Len(TenantRows(db, "t1")) = 2

(***************************************************************************)
(* main.py check-baseline / check-baseline-combined.  parse_scans runs the *)
(* ingestion first; on the stores below every file of the directory is     *)
(* recorded, so it changes nothing.  Then the comparison is called (ret    *)
(* tells which one), the report is looked at, and the mail is sent.        *)
(***************************************************************************)
\* report = out.get("report", {}); if not report: print, return 0
CheckReport(p) ==
    /\ pc[p] = "done"
    /\ IF report = <<>>
       THEN /\ pc' = [pc EXCEPT ![p] = "checked"]
            /\ loc' = [loc EXCEPT ![p].out = "no_change", ![p].rc = 0]
       ELSE /\ pc' = [pc EXCEPT ![p] = "mail"]
            /\ loc' = loc
    /\ UNCHANGED <<scans, db, lock, wdb, diffVars>>

\* What the SMTP exchange of send_mail does: the message is accepted, or a
\* call of smtplib raises (connection refused, recipients refused, ...).
SmtpOutcomes == {"delivered", "smtp_error"}

\* try: from mailer import send_mail; send_mail(subj, body); print("[+] Mail
\* inviata.") except Exception: return 3.  send_mail catches every exception
\* of the SMTP exchange itself, prints it and returns; only the import of
\* mailer (its config is read at import) or the building of the message can
\* raise into check_baseline.
CheckSendMail(p) ==
    /\ pc[p] = "mail"
    /\ \/ \E o \in SmtpOutcomes :
             loc' = [loc EXCEPT ![p].mail = o, ![p].out = "mail_sent", ![p].rc = 0]
       \/ loc' = [loc EXCEPT ![p].mail = "raised", ![p].out = "mail_error", ![p].rc = 3]
    /\ pc' = [pc EXCEPT ![p] = "checked"]
    /\ UNCHANGED <<scans, db, lock, wdb, diffVars>>

NextCheck ==
    \/ \E t \in Tenants : compare_baseline_to_latest("d1", t)
    \/ \E t \in Tenants : compare_baseline_to_latest_combined("d1", t)
    \/ CheckReport("d1")
    \/ CheckSendMail("d1")

SpecCheck == InitCompare /\ [][NextCheck]_vars

\* C30: when the report is not empty and the mail is not delivered, the
\* check command returns 3 and does not print that the mail was sent; it
\* returns 0 only when the report is empty or the mail was delivered.
C30_MailFailureIsExit3 ==
    pc["d1"] = "checked" =>
        /\ (report # <<>> /\ loc["d1"].mail # "delivered") =>
              (loc["d1"].rc = 3 /\ loc["d1"].out # "mail_sent")
        /\ loc["d1"].rc = 0 => (report = <<>> \/ loc["d1"].mail = "delivered")

====
